---- MODULE Spec2Model ----
(***************************************************************************)
(* Model of the geo-ai-monitor backend.                                    *)
(*                                                                         *)
(*   Spec     the Celery task run_analysis_task (backend/tasks.py and its  *)
(*            earlier revision backend/celery_worker.py) running           *)
(*            get_analysis (backend/geospatial.py) on a pool of workers    *)
(*            that share tasks_db.                                         *)
(*   ApiSpec  the endpoint generate_ai_response (backend/main.py) with its *)
(*            Redis cache and the Sentinel Hub token.                      *)
(*   RequestSpec  one request to generate_ai_response on its own, with     *)
(*            imagery answers that may have an empty body.                 *)
(*   IndexSpec  one call of get_analysis from the two rasters on: the      *)
(*            means, the change percentage and the encoded previews.       *)
(***************************************************************************)
EXTENDS Integers, Sequences, FiniteSets, TLC

\* ------------------------------------------------------------------ bounds
\* Messages the broker queues a second time, over all tasks.
MaxRedeliveries == 1
\* Steps of the clock.
MaxTicks == 1

\* --------------------------------------------------------------- constants
None == "None"

\* A pixel: a float value in units of 1/Scale, or NaN (no data).
NaN == [nan |-> TRUE, v |-> 0]
Px(x) == [nan |-> FALSE, v |-> x]

TaskIds == {"t1", "t2"}
Workers == {"w1", "w2"}

\* Task ids are opaque and idle workers are interchangeable: the id drawn
\* for the first request is called t1, and of two idle workers w1 is the one
\* that receives the next message.
FirstTask == "t1"
FirstWorker == "w1"

\* The module the worker imports run_analysis_task from: the repository
\* holds two revisions of the same task.
Impls == {"tasks", "celery_worker"}

\* Pixel values are integers in units of 1/Scale: 1e-7, so that 1e-6 and the
\* values on either side of it are pixel values.
Scale == 10 * 1000 * 1000

\* EVALSCRIPTS, by its keys.
EVALSCRIPTS == {"ndvi", "ndwi"}

\* The analysis kinds a request may name: the two indices and the
\* comparative-imagery mode, which has no evalscript.
AnalysisKinds == EVALSCRIPTS \cup {"rgb"}

\* The requests the model submits: a two-date NDVI request, a single-date
\* NDWI request, a request for the comparative-imagery mode and a request
\* whose analysis kind is unknown.
Requests ==
    { [analysis_type |-> "ndvi", from_date |-> 1, to_date |-> 2],
      [analysis_type |-> "ndwi", from_date |-> 1, to_date |-> 1],
      [analysis_type |-> "rgb",  from_date |-> 1, to_date |-> 2],
      [analysis_type |-> "evi",  from_date |-> 1, to_date |-> 2] }

\* The rasters request.get_data()[0] hands back to a worker: one that is
\* entirely no-data and one that is partly no-data (the index engine is run
\* on many more under IndexSpec).
Rasters ==
    { <<NaN, NaN>>, <<NaN, Px(6 * (Scale \div 10))>> }

\* Exceptions get_data() may raise (instances of Exception), by their text.
ExcMessages == {"download failed", "401 client_secret=s3cr3t"}

NoDataMsg == "No satellite data found for one or both dates, likely due to cloud cover."
InvalidTypeMsg == "Invalid analysis type specified."
UnexpectedMsg == "An unexpected server error occurred."

\* ---------------------------------------------------------------- numbers
Abs(x) == IF x < 0 THEN -x ELSE x

\* n/d (d > 0) rounded to the nearest integer, ties to even: round().
RoundDiv(n, d) ==
    LET q == n \div d
        r == n % d
    IN  IF 2 * r < d THEN q
        ELSE IF 2 * r > d THEN q + 1
        ELSE IF q % 2 = 0 THEN q ELSE q + 1

IsNaNPixel(p) == p.nan

ValidPixels(img) == { i \in DOMAIN img : ~IsNaNPixel(img[i]) }

RECURSIVE SumPixels(_, _)
SumPixels(img, idx) ==
    IF idx = {} THEN 0
    ELSE LET i == CHOOSE j \in idx : TRUE
         IN  img[i].v + SumPixels(img, idx \ {i})

\* np.nanmean: the mean of the pixels that are not NaN, as the fraction
\* num/den in units of 1/Scale; 0/0, which is NaN, when every pixel is NaN.
NanMean(img) ==
    LET v == ValidPixels(img)
    IN  [num |-> SumPixels(img, v), den |-> Cardinality(v)]

\* np.isnan(mean)
IsNaN(m) == m.den = 0

\* The quotient q and the remainder r of n * 10^k by d (d > 0), one decimal
\* digit at a time: n * 10^k = q * d + r and 0 <= r < d.
RECURSIVE Shift(_, _, _)
Shift(n, d, k) ==
    IF k = 0 THEN [q |-> n \div d, r |-> n % d]
    ELSE LET s == Shift(n, d, k - 1)
         IN  [q |-> s.q * 10 + (s.r * 10) \div d, r |-> (s.r * 10) % d]

\* n * 10^k / d rounded to the nearest integer, ties to even.
RoundScaled(n, d, k) ==
    LET s == Shift(n, d, k)
    IN  IF 2 * s.r < d THEN s.q
        ELSE IF 2 * s.r > d THEN s.q + 1
        ELSE IF s.q % 2 = 0 THEN s.q ELSE s.q + 1

\* Mutant: the test is abs(mean_from) >= 1e-6.
AtOrAboveEpsilon(m) == Abs(m.num) >= m.den * (Scale \div 1000000)

\* abs(mean_from) > 1e-6
AboveEpsilon(m) == Abs(m.num) > m.den * (Scale \div 1000000)

\* round(float(mean), 4), in units of 1e-4.
Round4(m) == RoundDiv(m.num, m.den * (Scale \div 10000))

\* Mutant: the change is computed from the two means as they are reported,
\* rounded to four decimals.
ChangeOfRoundedMeans(mf, mt) ==
    IF AboveEpsilon(mf) /\ Round4(mf) # 0
    THEN RoundScaled(Round4(mt) - Round4(mf), Abs(Round4(mf)), 4)
    ELSE 0

\* change = ((mean_to - mean_from) / abs(mean_from)) * 100 when
\* abs(mean_from) > 1e-6, else 0.0; round(float(change), 2), in units of 0.01.
ChangePercentage(mf, mt) ==
    IF AboveEpsilon(mf)
    THEN RoundScaled(mt.num * mf.den - mf.num * mt.den, mt.den * Abs(mf.num), 4)
    ELSE 0

\* round(float(mean), 4) as the float it is: NaN stays NaN.
ReportedMean(m) == IF IsNaN(m) THEN NaN ELSE Px(Round4(m))

\* round(float(change), 2) as the float it is: a comparison with NaN is
\* false, so a NaN mean_from gives 0.0, and a NaN mean_to gives NaN.
ReportedChange(mf, mt) ==
    IF AboveEpsilon(mf) /\ IsNaN(mt) THEN NaN ELSE Px(ChangePercentage(mf, mt))

\* Mutant: the test is np.isnan(mean_from) and np.isnan(mean_to).
NoDataInBoth(mean_from, mean_to) == IsNaN(mean_from) /\ IsNaN(mean_to)

\* if np.isnan(mean_from) or np.isnan(mean_to):
NoData(mean_from, mean_to) == IsNaN(mean_from) \/ IsNaN(mean_to)

\* image_array[nan_mask] = -1: the array encode_image leaves behind in the
\* buffer it was given.
Masked(image_array) ==
    [i \in DOMAIN image_array |->
        IF IsNaNPixel(image_array[i]) THEN Px(-Scale) ELSE image_array[i]]

\* (np.clip(v, -1, 1) * 127.5 + 127.5).astype(np.uint8) of one pixel:
\* (c + Scale) * 255 / (2 * Scale) truncated, computed in two halves.
EncodePixel(p) ==
    LET c == IF p.v < -Scale THEN -Scale ELSE IF p.v > Scale THEN Scale ELSE p.v
        x == c + Scale
        K == 10000
    IN  ((x \div K) * 255 + ((x % K) * 255) \div K) \div ((2 * Scale) \div K)

\* The image encode_image returns, by its pixels.
encode_image(image_array) ==
    [i \in DOMAIN image_array |-> EncodePixel(Masked(image_array)[i])]

\* The value get_analysis computes from the two rasters: the exception it
\* raises or the result it returns.
Analyse(req, image_from, image_to) ==
    LET mean_from == NanMean(image_from)
        mean_to == NanMean(image_to)
    IN  IF NoData(mean_from, mean_to)
        THEN [raised |-> "NoDataAvailableException", msg |-> NoDataMsg]
        ELSE [raised |-> None,
              result |->
                [from_date_str |-> req.from_date,
                 to_date_str |-> req.to_date,
                 mean_from |-> ReportedMean(mean_from),
                 mean_to |-> ReportedMean(mean_to),
                 change_percentage |-> ReportedChange(mean_from, mean_to),
                 image_from |-> encode_image(image_from),
                 image_to |-> encode_image(image_to),
                 analysis_type |-> req.analysis_type]]

\* ------------------------------------------------------------------ state
VARIABLES
    impl,       \* which revision of run_analysis_task the workers run
    tasks_db,   \* tasks_db: task id -> {"status": ..., "result" | "error": ...}
    payload,    \* the arguments of each submitted task's message
    inq,        \* messages of each task waiting in the broker's queue
    delivered,  \* messages the broker has queued for each task so far
    wpc,        \* where each worker is in run_analysis_task
    wtask,      \* the task_id argument of the worker's current execution
    wimg,       \* image_from of the worker's current execution
    starts,     \* executions that have set each task to "processing"
    lastRun,    \* the last finished execution of each task
    wcalls,     \* calls the worker's current execution has made
    rejected    \* the ids drawn for requests the submission path refused

wvars == <<impl, tasks_db, payload, inq, delivered, wpc, wtask, wimg, starts, lastRun,
           wcalls, rejected>>

\* main.py
VARIABLES
    now,           \* the clock, seconds
    prompt_hash,   \* hash(gemini_fixed_prompt) of each process
    redis_client,  \* whether each process connected to Redis at startup
    store,         \* the Redis server: entries [key, value, set_at, expires_at]
    token,         \* SENTINEL_HUB_TOKEN and TOKEN_EXPIRY of each process
    hpc,           \* where each request is in generate_ai_response
    hproc,         \* the process that handles the request
    hreq,          \* the request body
    hloc,          \* the handler's locals
    calls,         \* upstream calls each request has made
    lookup,        \* what each request's cache lookup met
    response       \* the response each request ended with

avars == <<now, prompt_hash, redis_client, store, token, hpc, hproc, hreq, hloc,
           calls, lookup, response>>

\* geospatial.py: one call of get_analysis from the two rasters on
VARIABLES
    given,      \* the rasters as get_data() returned them
    heap,       \* the arrays in memory, by the name that refers to each
    ipc,        \* where the call is in get_analysis
    iloc,       \* mean_from and mean_to
    iresult     \* the result dictionary as far as it is built

ivars == <<given, heap, ipc, iloc, iresult>>

Put(d, k, v) == [x \in DOMAIN d \cup {k} |-> IF x = k THEN v ELSE d[x]]

QueuedEntry == [status |-> "queued"]
ProcessingEntry == [status |-> "processing"]
\* Mutant: the entry is updated in place and keeps an error field.
CompletedEntryKeepsError(result_data) ==
    [status |-> "completed", result |-> result_data, error |-> ""]

CompletedEntry(result_data) == [status |-> "completed", result |-> result_data]

\* Mutant: no clause for NoDataAvailableException, every exception is
\* reported by the fixed text.
HandleWithoutNoDataClause(module, exc) ==
    [caught |-> TRUE, entry |-> [status |-> "failed", error |-> UnexpectedMsg]]

\* Mutant: only NoDataAvailableException is caught.
HandleOnlyNoData(module, exc) ==
    IF exc.raised = "NoDataAvailableException"
    THEN [caught |-> TRUE, entry |-> [status |-> "failed", error |-> exc.msg]]
    ELSE [caught |-> FALSE, entry |-> ProcessingEntry]

\* The except clauses of run_analysis_task: whether the exception is caught
\* and the entry then written. tasks.py reports NoDataAvailableException
\* by its text and anything else by a fixed text; celery_worker.py reports
\* every exception by its text.
Handle(module, exc) ==
    IF module = "tasks"
    THEN IF exc.raised = "NoDataAvailableException"
         THEN [caught |-> TRUE, entry |-> [status |-> "failed", error |-> exc.msg]]
         ELSE [caught |-> TRUE, entry |-> [status |-> "failed", error |-> UnexpectedMsg]]
    ELSE [caught |-> TRUE, entry |-> [status |-> "failed", error |-> exc.msg]]

\* get_analysis and the two get_data() calls, none made yet.
NoWorkerCalls == [get_analysis |-> 0, get_data_from |-> 0, get_data_to |-> 0]

WInit ==
    /\ impl \in Impls
    /\ tasks_db = <<>>
    /\ payload = <<>>
    /\ inq = [t \in TaskIds |-> 0]
    /\ delivered = [t \in TaskIds |-> 0]
    /\ wpc = [w \in Workers |-> "idle"]
    /\ wtask = [w \in Workers |-> None]
    /\ wimg = [w \in Workers |-> <<>>]
    /\ starts = [t \in TaskIds |-> 0]
    /\ lastRun = [t \in TaskIds |-> <<>>]
    /\ wcalls = [w \in Workers |-> NoWorkerCalls]
    /\ rejected = {}

\* Mutant: the analysis kind is not looked at.
SubmitAnyKind(t, req) ==
    /\ t \notin DOMAIN payload \cup rejected
    /\ t # FirstTask => FirstTask \in DOMAIN payload \cup rejected
    /\ payload' = Put(payload, t, req)
    /\ tasks_db' = Put(tasks_db, t, QueuedEntry)
    /\ inq' = [inq EXCEPT ![t] = 1]
    /\ delivered' = [delivered EXCEPT ![t] = 1]
    /\ UNCHANGED <<impl, wpc, wtask, wimg, starts, lastRun, wcalls, rejected,
                   avars, ivars>>

\* Mutant: the message is sent and the entry is left for the worker to
\* create.
SubmitWithoutEntry(t, req) ==
    /\ t \notin DOMAIN payload \cup rejected
    /\ t # FirstTask => FirstTask \in DOMAIN payload \cup rejected
    /\ IF req.analysis_type \in AnalysisKinds
       THEN /\ payload' = Put(payload, t, req)
            /\ inq' = [inq EXCEPT ![t] = 1]
            /\ delivered' = [delivered EXCEPT ![t] = 1]
            /\ UNCHANGED <<tasks_db, rejected>>
       ELSE /\ rejected' = rejected \cup {t}
            /\ UNCHANGED <<tasks_db, payload, inq, delivered>>
    /\ UNCHANGED <<impl, wpc, wtask, wimg, starts, lastRun, wcalls,
                   avars, ivars>>

\* The submission path: a request with an unknown analysis kind is refused;
\* otherwise a fresh id, the entry created as queued, the message sent to
\* the broker.
Submit(t, req) ==
    /\ t \notin DOMAIN payload \cup rejected
    /\ t # FirstTask => FirstTask \in DOMAIN payload \cup rejected
    /\ IF req.analysis_type \in AnalysisKinds
       THEN /\ payload' = Put(payload, t, req)
            /\ tasks_db' = Put(tasks_db, t, QueuedEntry)
            /\ inq' = [inq EXCEPT ![t] = 1]
            /\ delivered' = [delivered EXCEPT ![t] = 1]
            /\ UNCHANGED rejected
       ELSE /\ rejected' = rejected \cup {t}
            /\ UNCHANGED <<tasks_db, payload, inq, delivered>>
    /\ UNCHANGED <<impl, wpc, wtask, wimg, starts, lastRun, wcalls,
                   avars, ivars>>

\* Polling: the entry of the id, or not found.
Poll(t) == IF t \in DOMAIN tasks_db THEN tasks_db[t] ELSE [status |-> "not_found"]

RECURSIVE SumOver(_, _)
SumOver(f, S) ==
    IF S = {} THEN 0
    ELSE LET x == CHOOSE y \in S : TRUE IN f[x] + SumOver(f, S \ {x})

\* Messages queued beyond the one each submission sends.
Redelivered == SumOver(delivered, TaskIds) - Cardinality(DOMAIN payload)

\* The broker queues the message of a task a second time (a message that is
\* delivered at least once, or a second send with the same task id).
Redeliver(t) ==
    /\ t \in DOMAIN payload
    /\ Redelivered < MaxRedeliveries
    /\ inq' = [inq EXCEPT ![t] = @ + 1]
    /\ delivered' = [delivered EXCEPT ![t] = @ + 1]
    /\ UNCHANGED <<impl, tasks_db, payload, wpc, wtask, wimg, starts, lastRun,
                   wcalls, rejected,
                   avars, ivars>>

\* Mutant: the message stays in the queue after a worker has received it.
TakeLeavesMessage(w, t) ==
    /\ wpc[w] = "idle"
    /\ w # FirstWorker => wpc[FirstWorker] # "idle"
    /\ inq[t] > 0
    /\ starts[t] < 2
    /\ tasks_db' = Put(tasks_db, t, ProcessingEntry)
    /\ starts' = [starts EXCEPT ![t] = @ + 1]
    /\ wpc' = [wpc EXCEPT ![w] = "get_analysis"]
    /\ wtask' = [wtask EXCEPT ![w] = t]
    /\ UNCHANGED <<impl, payload, inq, delivered, wimg, lastRun, wcalls, rejected,
                   avars, ivars>>

\* A worker receives a message and run_analysis_task starts:
\* tasks_db[task_id] = {"status": "processing"}.
Take(w, t) ==
    /\ wpc[w] = "idle"
    /\ w # FirstWorker => wpc[FirstWorker] # "idle"
    /\ inq[t] > 0
    /\ inq' = [inq EXCEPT ![t] = @ - 1]
    /\ tasks_db' = Put(tasks_db, t, ProcessingEntry)
    /\ starts' = [starts EXCEPT ![t] = @ + 1]
    /\ wpc' = [wpc EXCEPT ![w] = "get_analysis"]
    /\ wtask' = [wtask EXCEPT ![w] = t]
    /\ UNCHANGED <<impl, payload, delivered, wimg, lastRun, wcalls, rejected,
                   avars, ivars>>

\* run_analysis_task ends with `outcome` (what get_analysis raised or
\* returned) after the calls `made`: the entry is written and the function
\* returns, or the exception leaves the function.
Finish(w, image_from, image_to, outcome, made) ==
    LET t == wtask[w]
        h == IF outcome.raised = None
             THEN [caught |-> TRUE, entry |-> CompletedEntry(outcome.result)]
             ELSE Handle(impl, outcome)
    IN  /\ tasks_db' = IF h.caught THEN Put(tasks_db, t, h.entry) ELSE tasks_db
        /\ wpc' = [wpc EXCEPT ![w] = IF h.caught THEN "idle" ELSE "escaped"]
        /\ wtask' = [wtask EXCEPT ![w] = None]
        /\ wimg' = [wimg EXCEPT ![w] = <<>>]
        /\ lastRun' = [lastRun EXCEPT ![t] =
              <<[nodata_from |-> image_from # <<>> /\ ValidPixels(image_from) = {},
                 nodata_to |-> image_to # <<>> /\ ValidPixels(image_to) = {},
                 got_from |-> image_from # <<>>,
                 got_to |-> image_to # <<>>,
                 raised |-> outcome.raised,
                 msg |-> IF outcome.raised = None THEN "" ELSE outcome.msg,
                 calls |-> made,
                 returned |-> h.caught]>>]
        /\ wcalls' = [wcalls EXCEPT ![w] = NoWorkerCalls]
        /\ UNCHANGED <<impl, payload, inq, delivered, starts, rejected,
                   avars, ivars>>

\* get_analysis is called; up to the two requests: the evalscript is looked
\* up.
StartAnalysis(w) ==
    /\ wpc[w] = "get_analysis"
    /\ LET made == [wcalls[w] EXCEPT !.get_analysis = @ + 1]
       IN  IF payload[wtask[w]].analysis_type \in EVALSCRIPTS
           THEN /\ wpc' = [wpc EXCEPT ![w] = "fetch_from"]
                /\ wcalls' = [wcalls EXCEPT ![w] = made]
                /\ UNCHANGED <<impl, tasks_db, payload, inq, delivered, wtask, wimg,
                               starts, lastRun, rejected,
                   avars, ivars>>
           ELSE Finish(w, <<>>, <<>>,
                       [raised |-> "ValueError", msg |-> InvalidTypeMsg], made)

\* Mutant: get_data() is called again when it has raised.
FetchFromAgain(w) ==
    /\ wpc[w] = "fetch_from"
    /\ wcalls' = [wcalls EXCEPT ![w].get_data_from = @ + 1]
    /\ \/ \E img \in Rasters :
             /\ wimg' = [wimg EXCEPT ![w] = img]
             /\ wpc' = [wpc EXCEPT ![w] = "fetch_to"]
       \/ UNCHANGED <<wimg, wpc>>
    /\ UNCHANGED <<impl, tasks_db, payload, inq, delivered, wtask,
                   starts, lastRun, rejected,
                   avars, ivars>>

\* image_from = request_from.get_data()[0]
FetchFrom(w) ==
    /\ wpc[w] = "fetch_from"
    /\ LET made == [wcalls[w] EXCEPT !.get_data_from = @ + 1]
       IN  \/ \E img \in Rasters :
                 /\ wimg' = [wimg EXCEPT ![w] = img]
                 /\ wpc' = [wpc EXCEPT ![w] = "fetch_to"]
                 /\ wcalls' = [wcalls EXCEPT ![w] = made]
                 /\ UNCHANGED <<impl, tasks_db, payload, inq, delivered, wtask,
                                starts, lastRun, rejected,
                   avars, ivars>>
           \/ \E m \in ExcMessages :
                 Finish(w, <<>>, <<>>, [raised |-> "Exception", msg |-> m], made)

\* image_to = request_to.get_data()[0], then the means, the result and the
\* entry.
FetchTo(w) ==
    /\ wpc[w] = "fetch_to"
    /\ LET made == [wcalls[w] EXCEPT !.get_data_to = @ + 1]
       IN  \/ \E img \in Rasters :
                 Finish(w, wimg[w], img,
                        Analyse(payload[wtask[w]], wimg[w], img), made)
           \/ \E m \in ExcMessages :
                 Finish(w, wimg[w], <<>>, [raised |-> "Exception", msg |-> m], made)

WNext ==
    \/ \E t \in TaskIds, req \in Requests : Submit(t, req)
    \/ \E t \in TaskIds : Redeliver(t)
    \/ \E w \in Workers, t \in TaskIds : Take(w, t)
    \/ \E w \in Workers : StartAnalysis(w)
    \/ \E w \in Workers : FetchFrom(w)
    \/ \E w \in Workers : FetchTo(w)

\* ------------------------------------------------- main.py: the endpoint
\* The requests, numbered as they arrive.
Handlers == {"h1", "h2"}
FirstHandler == "h1"
Earlier(g, h) == g = "h1" /\ h = "h2"

\* The server processes; each has its own hash seed and its own globals.
Procs == {"p1", "p2"}

\* hash(gemini_fixed_prompt) in a process: str hashes are salted with the
\* process's hash seed, so the value is fixed within a process and may be
\* any of these from one process to the next.
HashValues == {17, 42}

\* Processes and hash values are interchangeable: the first request goes to
\* the process called p1, whose hash value is called 17.
FirstProc == "p1"
FirstHash == CHOOSE v \in HashValues : \A u \in HashValues : v <= u

\* A string is the sequence of its characters.
RECURSIVE Digits(_)
Digits(n) ==
    IF n < 10 THEN <<CHOOSE c \in {"0", "1", "2", "3", "4", "5", "6", "7", "8", "9"} :
                        c = ToString(n)>>
    ELSE Digits(n \div 10) \o Digits(n % 10)

\* str(n) of an int
StrInt(n) == IF n < 0 THEN <<"-">> \o Digits(-n) ELSE Digits(n)

\* str(x) of the float x = n.0
StrFloat(n) == StrInt(n) \o <<".", "0">>

\* "_".join(parts)
RECURSIVE Join(_)
Join(parts) ==
    IF Len(parts) = 0 THEN <<>>
    ELSE IF Len(parts) = 1 THEN parts[1]
    ELSE parts[1] \o <<"_">> \o Join(Tail(parts))

\* cache_key, for a request handled in a process whose hash(prompt) is h.
CacheKey(req, h) ==
    <<"geo_ai_response:">> \o
    Join(<<StrFloat(req.bbox.north), StrFloat(req.bbox.south),
           StrFloat(req.bbox.east), StrFloat(req.bbox.west),
           req.start_date, req.end_date, StrInt(h)>>)

BBoxA == [north |-> 2, south |-> 1, east |-> 12, west |-> 11]

\* The request bodies the model posts: dates are any strings (a date that
\* does not parse makes get_sentinel_image_data search its default range).
ApiRequests ==
    { [bbox |-> BBoxA, start_date |-> <<"1">>, end_date |-> <<"2">>],
      [bbox |-> BBoxA, start_date |-> <<"1">>, end_date |-> <<"1">>] }

\* What the imagery endpoint and the summarization endpoint answer.
Images == {"jpegA"}
\* image_response.content in base64 when a 200 answer may also have an
\* empty body.
Bodies == {""} \cup Images
\* ai_text: the text of the first part of the first candidate, or "" when
\* that part has no text (.get("text", "")).
Texts == {"", "textA"}

\* The statuses an upstream answers an httpx.HTTPStatusError with.
UpstreamStatuses == {401}

\* How an upstream call fails: httpx.RequestError (a network error or the
\* timeout of the call), httpx.HTTPStatusError with the upstream's status,
\* or any other exception.
UpstreamFailures ==
    {[exc |-> "RequestError", status |-> 0], [exc |-> "Exception", status |-> 0]}
    \cup {[exc |-> "HTTPStatusError", status |-> c] : c \in UpstreamStatuses}

\* The except clauses of get_sentinel_hub_token: the status of the
\* HTTPException it raises.
TokenError(f) ==
    CASE f.exc = "RequestError" -> 503
      [] f.exc = "HTTPStatusError" -> f.status
      [] OTHER -> 500

\* The except clauses of get_sentinel_image_data.
ImageError(f) ==
    CASE f.exc = "RequestError" -> 503
      [] f.exc = "HTTPStatusError" -> f.status
      [] OTHER -> 500

\* The except clauses around the summarization call (an answer that does
\* not decode or has no content counts with the other exceptions).
GeminiError(f) ==
    CASE f.exc = "RequestError" -> 503
      [] f.exc = "HTTPStatusError" -> f.status
      [] OTHER -> 500

\* Mutant: the HTTPException is raised again as a server error.
ReraiseAsServerError(status_code) == 500

\* except HTTPException as e: raise HTTPException(status_code=e.status_code):
\* the status of the one raised for the token's or the image's.
Reraise(status_code) == status_code

\* redis ex=3600, seconds
CACHE_TTL == 3600
\* expires_in of the token response, seconds
EXPIRES_IN == 60 * 60
\* the clock advances in steps of an hour
TickSeconds == 60 * 60

\* The handler's locals, and with sh_token the TOKEN_EXPIRY that was
\* recorded when get_sentinel_hub_token returned it.
NoLocals ==
    [sh_token |-> -1, sh_expiry |-> -1, image_1 |-> None, image_2 |-> None]

\* The upstream calls a request has made, and the parts of the contents its
\* summarization call carried.
NoCalls == [token |-> 0, imagery |-> 0, summarization |-> 0, parts |-> <<>>]

\* What a request's cache calls met: whether the lookup was answered (done),
\* with a value (hit), whether the key had an expired entry, whether the
\* value was older than its time to live, whether the read raised, and how
\* the write went ("none" while no write was tried).
NoLookup == [done |-> FALSE, hit |-> FALSE, expired |-> FALSE, stale |-> FALSE,
             raised |-> FALSE, set |-> "none"]

AInit ==
    /\ now = 0
    /\ prompt_hash \in { f \in [Procs -> HashValues] : f[FirstProc] = FirstHash }
    /\ redis_client \in [Procs -> BOOLEAN]
    /\ store = {}
    /\ token = [p \in Procs |-> [value |-> -1, expiry |-> -1]]
    /\ hpc = [h \in Handlers |-> "idle"]
    /\ hproc = [h \in Handlers |-> None]
    /\ hreq = [h \in Handlers |-> <<>>]
    /\ hloc = [h \in Handlers |-> NoLocals]
    /\ calls = [h \in Handlers |-> NoCalls]
    /\ lookup = [h \in Handlers |-> NoLookup]
    /\ response = [h \in Handlers |-> <<>>]

Key(h) == CacheKey(hreq[h], prompt_hash[hproc[h]])

EntriesOf(k) == { e \in store : e.key = k }

Expired(e) == e.expires_at <= now

\* final_response.model_dump_json(): every field of the model is dumped.
ModelDumpJson(resp) ==
    [ai_response |-> resp.ai_response, image_url_1 |-> resp.image_url_1,
     image_url_2 |-> resp.image_url_2, cached |-> resp.cached]

\* GeoAnalysisResponse(**response_data, cached=True): a keyword given twice
\* is a TypeError.
CachedResponse(response_data) ==
    IF "cached" \in DOMAIN response_data
    THEN [raised |-> "TypeError"]
    ELSE [raised |-> None,
          value |-> [ai_response |-> response_data.ai_response,
                     image_url_1 |-> response_data.image_url_1,
                     image_url_2 |-> response_data.image_url_2,
                     cached |-> TRUE]]

\* Mutant: the value is added beside the entry the key already has.
RedisSetAppends(k, v) == store \cup
    {[key |-> k, value |-> v, set_at |-> now, expires_at |-> now + CACHE_TTL]}

\* redis_client.set(cache_key, value, ex=3600): the store after it.
RedisSet(k, v) == (store \ EntriesOf(k)) \cup
    {[key |-> k, value |-> v, set_at |-> now, expires_at |-> now + CACHE_TTL]}

\* Mutant: GET answers with the entry whatever its expiry.
RedisGetIgnoresExpiry(k) == EntriesOf(k)

\* redis_client.get(cache_key): the entries that answer it (none or one);
\* an entry past its expiry is not returned.
RedisGet(k) == { e \in EntriesOf(k) : ~Expired(e) }

\* An error response: its status, with the call that failed, how it failed
\* and the status of the HTTPException first raised for it.
HttpError(code, call, f, first) ==
    <<[status |-> code, call |-> call, cause |-> f.exc, first |-> first]>>

Ok(body) == <<[status |-> 200, body |-> body]>>

\* The clock advances.
Tick ==
    /\ now < MaxTicks * TickSeconds
    /\ now' = now + TickSeconds
    /\ UNCHANGED <<prompt_hash, redis_client, store, token, hpc, hproc, hreq, hloc,
                   calls, lookup, response,
                   wvars, ivars>>

\* Redis reclaims the entries that have expired.
Sweep ==
    /\ \E e \in store : Expired(e)
    /\ store' = { e \in store : ~Expired(e) }
    /\ UNCHANGED <<now, prompt_hash, redis_client, token, hpc, hproc, hreq, hloc,
                   calls, lookup, response,
                   wvars, ivars>>

\* A request arrives at a process.
Begin(h, p, req) ==
    /\ hpc[h] = "idle"
    /\ \A g \in Handlers : Earlier(g, h) => hpc[g] # "idle"
    /\ h = FirstHandler => p = FirstProc
    /\ hproc' = [hproc EXCEPT ![h] = p]
    /\ hreq' = [hreq EXCEPT ![h] = req]
    /\ hpc' = [hpc EXCEPT ![h] = "cache_get"]
    /\ UNCHANGED <<now, prompt_hash, redis_client, store, token, hloc, calls,
                   lookup, response,
                   wvars, ivars>>

\* generate_ai_response ends: the response (or the HTTPException) leaves
\* the handler and its locals are gone.
Return(h, resp) ==
    /\ response' = [response EXCEPT ![h] = resp]
    /\ hpc' = [hpc EXCEPT ![h] = "done"]
    /\ hloc' = [hloc EXCEPT ![h] = NoLocals]

\* Mutant: an exception of the cache read ends the request.
CacheReadErrorRaised(h) ==
    Return(h, HttpError(500, "cache", [exc |-> "Exception"], 500))

\* except Exception as e: print(f"Redis cache read error: {e}"): the handler
\* goes on below the lookup.
CacheReadError(h) ==
    /\ hpc' = [hpc EXCEPT ![h] = "token"]
    /\ UNCHANGED <<hloc, response>>

\* except Exception as e: print(f"Redis cache write error: {e}"), then
\* return final_response.
CacheWriteError(final_response) == Ok(final_response)

\* The cache lookup: without a client, or when the lookup raises, or when
\* nothing is returned, or when building the response raises, the request
\* goes on to the upstream calls; a response built from the cached value is
\* returned.
CacheGet(h) ==
    /\ hpc[h] = "cache_get"
    /\ \/ /\ ~redis_client[hproc[h]]
          /\ hpc' = [hpc EXCEPT ![h] = "token"]
          /\ UNCHANGED <<store, hloc, lookup, response>>
       \/ /\ redis_client[hproc[h]]
          /\ lookup' = [lookup EXCEPT ![h].raised = TRUE]
          /\ CacheReadError(h)
          /\ UNCHANGED store
       \/ /\ redis_client[hproc[h]]
          /\ LET got == RedisGet(Key(h))
                 cached_response ==
                     IF got = {} THEN <<>> ELSE <<(CHOOSE e \in got : TRUE).value>>
                 built == IF got = {} THEN [raised |-> None]
                          ELSE CachedResponse(cached_response[1])
             IN  /\ store' = store \ { e \in EntriesOf(Key(h)) : Expired(e) }
                 /\ lookup' = [lookup EXCEPT ![h] =
                       [done |-> TRUE,
                        hit |-> got # {},
                        expired |-> \E e \in EntriesOf(Key(h)) : Expired(e),
                        stale |-> \E e \in got : e.set_at + CACHE_TTL <= now,
                        raised |-> got # {} /\ built.raised # None,
                        set |-> "none"]]
                 /\ IF got = {}
                    THEN /\ hpc' = [hpc EXCEPT ![h] = "token"]
                         /\ UNCHANGED <<hloc, response>>
                    ELSE IF built.raised = None
                         THEN Return(h, Ok(built.value))
                         ELSE CacheReadError(h)
    /\ UNCHANGED <<now, prompt_hash, redis_client, token, hproc, hreq, calls,
                   wvars, ivars>>

\* get_sentinel_hub_token up to its request: the cached token is returned
\* when its expiry is more than five minutes away.
TokenCheck(h) ==
    /\ hpc[h] = "token"
    /\ LET g == token[hproc[h]]
       IN  IF g.value # -1 /\ g.expiry # -1 /\ g.expiry > now + 5 * 60
           THEN /\ hloc' = [hloc EXCEPT ![h].sh_token = g.value,
                                        ![h].sh_expiry = g.expiry]
                /\ hpc' = [hpc EXCEPT ![h] = "fetch_1"]
                /\ calls' = calls
           ELSE /\ hpc' = [hpc EXCEPT ![h] = "token_post"]
                /\ calls' = [calls EXCEPT ![h].token = @ + 1]
                /\ hloc' = hloc
    /\ UNCHANGED <<now, prompt_hash, redis_client, store, token, hproc, hreq,
                   lookup, response,
                   wvars, ivars>>

\* token_data["expires_in"] raises (the key is missing, or its value is
\* not a number) after SENTINEL_HUB_TOKEN was assigned.
NoExpiresIn == [exc |-> "Exception", status |-> 0]

\* The token endpoint answers: the token and its expiry are stored, or the
\* error is raised and generate_ai_response raises it again with its status.
\* An answer with an access_token and without a usable expires_in stores
\* the token and raises before the expiry is stored.
TokenResponse(h) ==
    /\ hpc[h] = "token_post"
    /\ \/ /\ token' = [token EXCEPT ![hproc[h]] =
                          [value |-> now, expiry |-> now + EXPIRES_IN - 60]]
          /\ hloc' = [hloc EXCEPT ![h].sh_token = now,
                                   ![h].sh_expiry = now + EXPIRES_IN - 60]
          /\ hpc' = [hpc EXCEPT ![h] = "fetch_1"]
          /\ UNCHANGED response
       \/ \E f \in UpstreamFailures :
          /\ Return(h, HttpError(Reraise(TokenError(f)), "token", f, TokenError(f)))
          /\ UNCHANGED token
       \/ /\ token' = [token EXCEPT ![hproc[h]].value = now]
          /\ Return(h, HttpError(Reraise(TokenError(NoExpiresIn)), "token",
                                 NoExpiresIn, TokenError(NoExpiresIn)))
    /\ UNCHANGED <<now, prompt_hash, redis_client, store, hproc, hreq, calls, lookup,
                   wvars, ivars>>

\* get_sentinel_image_data for start_date; the second image is asked for
\* only when the dates differ.
Fetch1(h, contents) ==
    /\ hpc[h] = "fetch_1"
    /\ calls' = [calls EXCEPT ![h].imagery = @ + 1]
    /\ \/ \E img \in contents :
          /\ hloc' = [hloc EXCEPT ![h].image_1 = img]
          /\ hpc' = [hpc EXCEPT ![h] =
                IF hreq[h].start_date # hreq[h].end_date THEN "fetch_2" ELSE "summarize"]
          /\ UNCHANGED response
       \/ \E f \in UpstreamFailures :
          Return(h, HttpError(Reraise(ImageError(f)), "imagery", f, ImageError(f)))
    /\ UNCHANGED <<now, prompt_hash, redis_client, store, token, hproc, hreq, lookup,
                   wvars, ivars>>

\* get_sentinel_image_data for end_date.
Fetch2(h, contents) ==
    /\ hpc[h] = "fetch_2"
    /\ calls' = [calls EXCEPT ![h].imagery = @ + 1]
    /\ \/ \E img \in contents :
          /\ hloc' = [hloc EXCEPT ![h].image_2 = img]
          /\ hpc' = [hpc EXCEPT ![h] = "summarize"]
          /\ UNCHANGED response
       \/ \E f \in UpstreamFailures :
          Return(h, HttpError(Reraise(ImageError(f)), "imagery", f, ImageError(f)))
    /\ UNCHANGED <<now, prompt_hash, redis_client, store, token, hproc, hreq, lookup,
                   wvars, ivars>>

\* if base64_image_1: / if base64_image_2:
Truthy(base64_image) == base64_image # None /\ base64_image # ""

\* contents_parts: the prompt, then the first image and, if there is one,
\* the second; without a first image, a sentence naming the area and the
\* dates is put before the prompt and no image is appended.
ContentsParts(base64_image_1, base64_image_2) ==
    IF Truthy(base64_image_1)
    THEN <<[text |-> "prompt"], [inlineData |-> base64_image_1]>> \o
         (IF Truthy(base64_image_2) THEN <<[inlineData |-> base64_image_2]>> ELSE <<>>)
    ELSE <<[text |-> "regarding"], [text |-> "prompt"]>>

\* The summarization call and what follows it: the response is built,
\* written to the cache (a failing write is only printed) and returned; a
\* failing call or an answer without content is an error response.
Summarize(h) ==
    /\ hpc[h] = "summarize"
    /\ calls' = [calls EXCEPT ![h].summarization = @ + 1,
                              ![h].parts = ContentsParts(hloc[h].image_1, hloc[h].image_2)]
    /\ \/ \E text \in Texts, set_ok \in BOOLEAN :
          LET final_response ==
                 [ai_response |-> text, image_url_1 |-> hloc[h].image_1,
                  image_url_2 |-> hloc[h].image_2, cached |-> FALSE]
              written == redis_client[hproc[h]] /\ set_ok
          IN  /\ store' = IF written
                          THEN RedisSet(Key(h), ModelDumpJson(final_response))
                          ELSE store
              /\ lookup' = [lookup EXCEPT ![h].set =
                    IF ~redis_client[hproc[h]] THEN "none"
                    ELSE IF set_ok THEN "ok" ELSE "raised"]
              /\ Return(h, IF redis_client[hproc[h]] /\ ~set_ok
                           THEN CacheWriteError(final_response)
                           ELSE Ok(final_response))
       \/ \E f \in UpstreamFailures :
          /\ Return(h, HttpError(GeminiError(f), "summarization", f, GeminiError(f)))
          /\ UNCHANGED <<store, lookup>>
    /\ UNCHANGED <<now, prompt_hash, redis_client, token, hproc, hreq,
                   wvars, ivars>>

ANext ==
    \/ Tick
    \/ Sweep
    \/ \E h \in Handlers, p \in Procs, req \in ApiRequests : Begin(h, p, req)
    \/ \E h \in Handlers : CacheGet(h)
    \/ \E h \in Handlers : TokenCheck(h)
    \/ \E h \in Handlers : TokenResponse(h)
    \/ \E h \in Handlers : Fetch1(h, Images)
    \/ \E h \in Handlers : Fetch2(h, Images)
    \/ \E h \in Handlers : Summarize(h)

\* One request on its own, with imagery answers that may be empty.
RNext ==
    \/ Tick
    \/ Sweep
    \/ \E p \in Procs, req \in ApiRequests : Begin(FirstHandler, p, req)
    \/ CacheGet(FirstHandler)
    \/ TokenCheck(FirstHandler)
    \/ TokenResponse(FirstHandler)
    \/ Fetch1(FirstHandler, Bodies)
    \/ Fetch2(FirstHandler, Bodies)
    \/ Summarize(FirstHandler)

\* --------------------------------------- geospatial.py: the index engine
\* The pixel values the engine is run on: no data, 0, 1e-7, 1e-6 and 1.2e-6
\* of either sign, 0.00016 and 0.00024, 0.4, 0.5, 0.6, and 1.5 (outside the
\* range that is displayed).
IndexPixels ==
    { NaN, Px(0), Px(1), Px(10), Px(12), Px(-10), Px(-12), Px(1600), Px(2400),
      Px(4 * (Scale \div 10)), Px(5 * (Scale \div 10)), Px(6 * (Scale \div 10)),
      Px(15 * (Scale \div 10)) }

IndexRasters == { <<p, q>> : p, q \in IndexPixels }

RECURSIVE GCD(_, _)
GCD(a, b) == IF b = 0 THEN a ELSE GCD(b, a % b)

\* The exact change (mean_to - mean_from) / abs(mean_from), as a fraction in
\* lowest terms (mean_from is not 0).
ExactChange(mf, mt) ==
    LET a == mt.num * mf.den - mf.num * mt.den
        b == mt.den * Abs(mf.num)
        g == GCD(Abs(a), b)
    IN  [num |-> a \div g, den |-> b \div g]

\* The pairs the engine is run on: every pair whose from-mean is below 1e-6
\* in absolute value, and of the others those whose percentage, in units of
\* 0.01, fits a 32-bit integer.
Representable(image_from, image_to) ==
    LET mf == NanMean(image_from)
        mt == NanMean(image_to)
    IN  IsNaN(mf) \/ IsNaN(mt)
        \/ Abs(mf.num) < mf.den * (Scale \div 1000000)
        \/ Abs(ExactChange(mf, mt).num) < 100000

IndexInputs ==
    { in \in [from : IndexRasters, to : IndexRasters] :
         Representable(in.from, in.to) }

\* Mutant: the array is handed on, not a copy of it.
NpCopyReturnsArgument(src, fresh) == src

\* np.copy(a): the name of the array it returns, a fresh one.
NpCopy(src, fresh) == fresh

IInit ==
    /\ given \in IndexInputs
    /\ heap = [image_from |-> given.from, image_to |-> given.to]
    /\ ipc = "means"
    /\ iloc = <<>>
    /\ iresult = <<>>

\* mean_from, mean_to = np.nanmean(...); NoDataAvailableException when
\* either is NaN.
Means ==
    /\ ipc = "means"
    /\ LET mean_from == NanMean(heap.image_from)
           mean_to == NanMean(heap.image_to)
       IN  IF IsNaN(mean_from) \/ IsNaN(mean_to)
           THEN /\ ipc' = "raised"
                /\ iloc' = iloc
           ELSE /\ ipc' = "change"
                /\ iloc' = <<[mean_from |-> mean_from, mean_to |-> mean_to]>>
    /\ UNCHANGED <<given, heap, iresult, wvars, avars>>

\* change, and the first entries of result: the rounded means and the
\* rounded change.
Change ==
    /\ ipc = "change"
    /\ iresult' = <<[mean_from |-> Round4(iloc[1].mean_from),
                     mean_to |-> Round4(iloc[1].mean_to),
                     change_percentage |->
                         ChangePercentage(iloc[1].mean_from, iloc[1].mean_to)]>>
    /\ ipc' = "encode_from"
    /\ UNCHANGED <<given, heap, iloc, wvars, avars>>

\* encode_image(np.copy(image)) for the array called `name`: the copy is
\* the array encode_image writes -1 into and encodes.
Encode(name, fresh) ==
    LET arg == NpCopy(name, fresh)
        copied == [b \in DOMAIN heap \cup {arg} |-> heap[IF b = arg THEN name ELSE b]]
    IN  [heap |-> [copied EXCEPT ![arg] = Masked(@)],
         png |-> encode_image(copied[arg])]

\* "image_from": encode_image(np.copy(image_from))
EncodeFrom ==
    /\ ipc = "encode_from"
    /\ LET e == Encode("image_from", "copy_from")
       IN  /\ heap' = e.heap
           /\ iresult' = <<[mean_from |-> iresult[1].mean_from,
                            mean_to |-> iresult[1].mean_to,
                            change_percentage |-> iresult[1].change_percentage,
                            image_from |-> e.png]>>
    /\ ipc' = "encode_to"
    /\ UNCHANGED <<given, iloc, wvars, avars>>

\* "image_to": encode_image(np.copy(image_to)), and the result is returned.
EncodeTo ==
    /\ ipc = "encode_to"
    /\ LET e == Encode("image_to", "copy_to")
       IN  /\ heap' = e.heap
           /\ iresult' = <<[mean_from |-> iresult[1].mean_from,
                            mean_to |-> iresult[1].mean_to,
                            change_percentage |-> iresult[1].change_percentage,
                            image_from |-> iresult[1].image_from,
                            image_to |-> e.png]>>
    /\ ipc' = "done"
    /\ UNCHANGED <<given, iloc, wvars, avars>>

INext ==
    \/ Means
    \/ Change
    \/ EncodeFrom
    \/ EncodeTo

\* ---------------------------------------------------------- specifications
vars == <<wvars, avars, ivars>>

\* The index engine at rest.
IIdle ==
    /\ given = <<>>
    /\ heap = <<>>
    /\ ipc = "idle"
    /\ iloc = <<>>
    /\ iresult = <<>>

\* The endpoint at rest, while the workers run.
AIdle ==
    /\ now = 0
    /\ prompt_hash = [p \in Procs |-> 17]
    /\ redis_client = [p \in Procs |-> FALSE]
    /\ store = {}
    /\ token = [p \in Procs |-> [value |-> -1, expiry |-> -1]]
    /\ hpc = [h \in Handlers |-> "idle"]
    /\ hproc = [h \in Handlers |-> None]
    /\ hreq = [h \in Handlers |-> <<>>]
    /\ hloc = [h \in Handlers |-> NoLocals]
    /\ calls = [h \in Handlers |-> NoCalls]
    /\ lookup = [h \in Handlers |-> NoLookup]
    /\ response = [h \in Handlers |-> <<>>]

\* The workers at rest, while the endpoint runs.
WIdle ==
    /\ impl = "tasks"
    /\ tasks_db = <<>>
    /\ payload = <<>>
    /\ inq = [t \in TaskIds |-> 0]
    /\ delivered = [t \in TaskIds |-> 0]
    /\ wpc = [w \in Workers |-> "idle"]
    /\ wtask = [w \in Workers |-> None]
    /\ wimg = [w \in Workers |-> <<>>]
    /\ starts = [t \in TaskIds |-> 0]
    /\ lastRun = [t \in TaskIds |-> <<>>]
    /\ wcalls = [w \in Workers |-> NoWorkerCalls]
    /\ rejected = {}

Init == WInit /\ AIdle /\ IIdle

Next == WNext

Spec == Init /\ [][Next]_vars

ApiInit == AInit /\ WIdle /\ IIdle

ApiNext == ANext

ApiSpec == ApiInit /\ [][ApiNext]_vars

RequestInit == AInit /\ WIdle /\ IIdle

RequestNext == RNext

RequestSpec == RequestInit /\ [][RequestNext]_vars

IndexInit == IInit /\ WIdle /\ AIdle

IndexNext == INext

IndexSpec == IndexInit /\ [][IndexNext]_vars

\* ------------------------------------------------------------------ claims
Rank(status) ==
    CASE status = "queued" -> 0
      [] status = "processing" -> 1
      [] OTHER -> 2

Terminal(e) == e.status \in {"completed", "failed"}

Running(t) == { w \in Workers : wtask[w] = t }

\* C1 (as claimed): the status of a task never goes back to an earlier one,
\* and an entry that is completed or failed is never written again, also
\* when the message of a task id is delivered a second time.
C1_StatusNeverGoesBack ==
    [][\A t \in DOMAIN tasks_db :
          /\ Rank(tasks_db'[t].status) >= Rank(tasks_db[t].status)
          /\ Terminal(tasks_db[t]) => tasks_db'[t] = tasks_db[t]]_vars

C8_ResultIffCompleted ==
    \A t \in DOMAIN tasks_db :
        LET e == tasks_db[t]
        IN  /\ ("result" \in DOMAIN e) <=> (e.status = "completed")
            /\ ("error" \in DOMAIN e) <=> (e.status = "failed")

\* C8 witness: one task is completed and the other failed.
C8_Witness ==
    \E t, u \in DOMAIN tasks_db :
        /\ tasks_db[t].status = "completed"
        /\ tasks_db[u].status = "failed"

\* C9: when the last finished execution of a task got two rasters that are
\* entirely no-data, the entry it wrote is failed with the no-data text
\* (the entry stays until a later execution sets the task to processing).
C9_BothNoDataFails ==
    \A t \in DOMAIN tasks_db :
        (/\ lastRun[t] # <<>>
         /\ lastRun[t][1].nodata_from
         /\ lastRun[t][1].nodata_to
         /\ tasks_db[t] # ProcessingEntry)
        => tasks_db[t] = [status |-> "failed", error |-> NoDataMsg]

\* C9 witness: an execution has ended on two rasters without data.
C9_Witness ==
    \E t \in DOMAIN tasks_db :
        /\ lastRun[t] # <<>>
        /\ lastRun[t][1].nodata_from
        /\ lastRun[t][1].nodata_to
        /\ tasks_db[t].status = "failed"

\* C10: every finished execution returned to the worker (no exception left
\* run_analysis_task), and the entry it wrote is completed when get_analysis
\* returned and failed when it raised.
C10_ExceptionsBecomeFailed ==
    /\ \A w \in Workers : wpc[w] # "escaped"
    /\ \A t \in DOMAIN tasks_db :
          (lastRun[t] # <<>> /\ tasks_db[t] # ProcessingEntry) =>
              /\ lastRun[t][1].returned
              /\ tasks_db[t].status =
                    IF lastRun[t][1].raised = None THEN "completed" ELSE "failed"

\* C10 witness: executions have ended on an exception of get_data() and on
\* the ValueError of an unknown analysis type.
C10_Witness ==
    \E t, u \in DOMAIN tasks_db :
        /\ lastRun[t] # <<>> /\ lastRun[u] # <<>>
        /\ lastRun[t][1].raised = "Exception"
        /\ lastRun[u][1].raised = "ValueError"
        /\ tasks_db[t].status = "failed"
        /\ tasks_db[u].status = "failed"

Answered(h) == hpc[h] = "done" /\ response[h][1].status = 200

\* C3 (as claimed): a request whose lookup found an unexpired entry under
\* its key returns a response marked cached and calls neither the token
\* endpoint nor the imagery endpoint nor the summarization endpoint.
C3_HitSkipsUpstream ==
    \A h \in Handlers :
        lookup[h].hit =>
            /\ calls[h] = NoCalls
            /\ Answered(h)
            /\ response[h][1].body.cached

\* C4 (as claimed): when a request found the entry an earlier request with
\* the same body stored, and both are answered, the two report the same
\* values and the later one has made no imagery call.
C4_SecondSubmissionReusesResult ==
    \A g, h \in Handlers :
        (/\ Earlier(g, h)
         /\ Answered(g)
         /\ Answered(h)
         /\ lookup[h].hit
         /\ hreq[g] = hreq[h])
        => /\ calls[h].imagery = 0
           /\ response[h][1].body.ai_response = response[g][1].body.ai_response
           /\ response[h][1].body.image_url_1 = response[g][1].body.image_url_1
           /\ response[h][1].body.image_url_2 = response[g][1].body.image_url_2

\* C5 (as claimed): two requests get the same cache key exactly when their
\* bodies are equal, whichever processes handle them.
C5_KeyDependsOnRequestOnly ==
    \A g, h \in Handlers :
        (hpc[g] # "idle" /\ hpc[h] # "idle") =>
            ((hreq[g] = hreq[h]) <=> (Key(g) = Key(h)))

\* C6: no lookup has returned an entry stored CACHE_TTL or more before it,
\* and a lookup that met an expired entry under its key returned nothing:
\* the request then answers only after its own imagery and summarization
\* calls, with a response that is not marked cached.
C6_NoStaleValue ==
    \A h \in Handlers :
        /\ ~lookup[h].stale
        /\ lookup[h].expired =>
              /\ ~lookup[h].hit
              /\ hpc[h] # "cache_get"
              /\ Answered(h) =>
                    /\ calls[h].imagery >= 1
                    /\ calls[h].summarization = 1
                    /\ ~response[h][1].body.cached

\* C6 witness: a request whose lookup met an expired entry has been answered.
C6_Witness ==
    \E h \in Handlers : lookup[h].expired /\ Answered(h)

AtMostOneEntryPerKey ==
    \A e1, e2 \in store : e1.key = e2.key => e1 = e2

\* C7: the store never holds two entries with one key, and a write leaves
\* under its key exactly the entry with the written value, set now and
\* expiring CACHE_TTL from now.
C7_OneEntryPerKey ==
    /\ []AtMostOneEntryPerKey
    /\ [][\A h \in Handlers :
            (hpc[h] = "summarize" /\ hpc'[h] = "done" /\ store' # store) =>
                { e \in store' : e.key = Key(h) } =
                    {[key |-> Key(h),
                      value |-> ModelDumpJson(response'[h][1].body),
                      set_at |-> now,
                      expires_at |-> now + CACHE_TTL]}]_vars

\* C7 witness: a request found an entry under its key and has written its
\* own, different value there: the key has the one entry, with that value.
C7_Witness ==
    \E g, h \in Handlers :
        /\ Earlier(g, h)
        /\ lookup[h].hit
        /\ Answered(g) /\ Answered(h)
        /\ response[g][1].body # response[h][1].body
        /\ EntriesOf(Key(h)) # {}
        /\ \A e \in EntriesOf(Key(h)) : e.value = ModelDumpJson(response[h][1].body)

\* An index mean equal to the decimal fraction n/d (d divides Scale).
Is(m, n, d) == ~IsNaN(m) /\ m.num = n * m.den * (Scale \div d)

\* x, in units of 1/unit, is the fraction num/den rounded to the nearest
\* such unit (num/den in units of 1/(unit * k)).
Nearest(x, num, den, k) == 2 * Abs(x * den * k - num) <= den * k

\* C11 (as claimed): the change_percentage of a returned result whose
\* reported from-mean is not 0 is (to - from) / |from| * 100 rounded to two
\* decimals, computed from the two means as the result reports them,
\* rounded to four decimals.
C11_ChangeOfReportedMeans ==
    (ipc = "done" /\ iresult[1].mean_from # 0) =>
        iresult[1].change_percentage =
            RoundScaled(iresult[1].mean_to - iresult[1].mean_from,
                        Abs(iresult[1].mean_from), 4)

\* C11 (amended): the reported means are the means of the rasters rounded
\* to four decimals, and when the unrounded from-mean is above 1e-6 in
\* absolute value the change_percentage is within half a hundredth of
\* (mean_to - mean_from) / |mean_from| * 100 of the unrounded means.
C11_ChangeOfUnroundedMeans ==
    ipc = "done" =>
        LET mf == NanMean(given.from)
            mt == NanMean(given.to)
            r == iresult[1]
        IN  /\ Nearest(r.mean_from, mf.num, mf.den, Scale \div 10000)
            /\ Nearest(r.mean_to, mt.num, mt.den, Scale \div 10000)
            /\ Abs(mf.num) > mf.den * (Scale \div 1000000) =>
                  LET x == ExactChange(mf, mt)
                  IN  2 * Abs(r.change_percentage * x.den - x.num * 10000) <= x.den

\* C11 witness: from 0.60 and to 0.40 have given -33.33.
C11_Witness ==
    /\ ipc = "done"
    /\ Is(NanMean(given.from), 6, 10)
    /\ Is(NanMean(given.to), 4, 10)
    /\ iresult[1].mean_from = 6000
    /\ iresult[1].mean_to = 4000
    /\ iresult[1].change_percentage = -3333

\* C12: when the from-mean is at most 1e-6 in absolute value the
\* change_percentage of the result is 0, whatever the to-mean.
C12_NearZeroFromMeanGivesZero ==
    ipc \in {"encode_from", "encode_to", "done"} =>
        LET mf == NanMean(given.from)
        IN  Abs(mf.num) <= mf.den * (Scale \div 1000000) =>
                iresult[1].change_percentage = 0

\* C12 witness: results have been returned for a from-mean of exactly 1e-6
\* and a to-mean that differs from it.
C12_Witness ==
    /\ ipc = "done"
    /\ Is(NanMean(given.from), 1, 1000000)
    /\ ~Is(NanMean(given.to), 1, 1000000)
    /\ iresult[1].change_percentage = 0

\* C20: once a preview is encoded, the raster it was made from is still the
\* array get_data() returned, no-data pixels included, and its mean is
\* still the mean the result was computed from.
C20_PreviewsLeaveRastersAlone ==
    /\ ipc \in {"encode_to", "done"} =>
          /\ heap.image_from = given.from
          /\ NanMean(heap.image_from) = iloc[1].mean_from
    /\ ipc = "done" =>
          /\ heap.image_to = given.to
          /\ NanMean(heap.image_to) = iloc[1].mean_to

\* C20 witness: both previews are encoded from rasters with no-data pixels:
\* the copies hold -1 there, the rasters still hold NaN.
C20_Witness ==
    /\ ipc = "done"
    /\ \E i \in DOMAIN given.from : IsNaNPixel(given.from[i])
    /\ \E i \in DOMAIN given.to : IsNaNPixel(given.to[i])
    /\ heap.copy_from = Masked(given.from) /\ heap.copy_from # given.from
    /\ heap.copy_to = Masked(given.to) /\ heap.copy_to # given.to
    /\ heap.image_from = given.from
    /\ heap.image_to = given.to

\* The kind of the error taxonomy a failure of get_analysis belongs to.
ErrorKind(run) ==
    CASE run.raised = "NoDataAvailableException" -> "NoDataAvailable"
      [] run.raised = "Exception" /\ run.msg = "download failed" ->
             "TransientUpstreamFailure"
      [] run.raised = "Exception" -> "AuthFailure"
      [] OTHER -> "InternalError"

\* The tasks whose last execution has ended in a failed entry.
FailedTasks ==
    { t \in DOMAIN tasks_db :
         lastRun[t] # <<>> /\ tasks_db[t].status = "failed" }

\* C13: an execution of run_analysis_task calls get_analysis once and each
\* get_data() at most once, and makes no call after the one that raised: a
\* failing first get_data() is not followed by the second.
C13_NoRetryWithinAttempt ==
    /\ \A w \in Workers :
          /\ wcalls[w].get_analysis <= 1
          /\ wcalls[w].get_data_from <= 1
          /\ wcalls[w].get_data_to <= 1
    /\ \A t \in TaskIds :
          lastRun[t] # <<>> =>
              LET run == lastRun[t][1]
              IN  /\ run.calls.get_analysis = 1
                  /\ run.calls.get_data_from <= 1
                  /\ run.calls.get_data_to <= 1
                  /\ run.raised = "ValueError" =>
                        run.calls.get_data_from + run.calls.get_data_to = 0
                  /\ ~run.got_from => run.calls.get_data_to = 0

\* C13 witness: one execution ended on the exception of its first
\* get_data() and another on the exception of its second.
C13_Witness ==
    \E t, u \in TaskIds :
        /\ lastRun[t] # <<>> /\ lastRun[u] # <<>>
        /\ lastRun[t][1].raised = "Exception" /\ ~lastRun[t][1].got_from
        /\ lastRun[t][1].calls = [get_analysis |-> 1, get_data_from |-> 1, get_data_to |-> 0]
        /\ lastRun[u][1].raised = "Exception" /\ lastRun[u][1].got_from
        /\ lastRun[u][1].calls = [get_analysis |-> 1, get_data_from |-> 1, get_data_to |-> 1]

\* C14 (as claimed): an execution that got the raster of the from date
\* has asked for the raster of the to date exactly when the two dates of
\* its request differ: a request with equal dates causes one fetch.
C14_SecondFetchIffDatesDiffer ==
    \A t \in DOMAIN payload :
        (lastRun[t] # <<>> /\ lastRun[t][1].got_from) =>
            /\ lastRun[t][1].calls.get_data_from = 1
            /\ (lastRun[t][1].calls.get_data_to = 1)
                  <=> (payload[t].from_date # payload[t].to_date)

C16_ErrorTellsKind ==
    \A t, u \in FailedTasks :
        ErrorKind(lastRun[t][1]) # ErrorKind(lastRun[u][1]) =>
            tasks_db[t].error # tasks_db[u].error

\* C17 (as claimed): two failed tasks whose executions ended on exceptions
\* other than NoDataAvailableException have the same error, whatever the
\* exceptions said.
C17_UnexpectedErrorIsFixedText ==
    \A t, u \in FailedTasks :
        (/\ lastRun[t][1].raised # "NoDataAvailableException"
         /\ lastRun[u][1].raised # "NoDataAvailableException")
        => tasks_db[t].error = tasks_db[u].error

\* C18: polling the id of a submitted task never answers not found, and
\* answers queued as long as no worker has started on it.
C18_SubmittedTaskIsFound ==
    \A t \in DOMAIN payload :
        /\ Poll(t).status \in {"queued", "processing", "completed", "failed"}
        /\ starts[t] = 0 => Poll(t) = QueuedEntry

\* C18 witness: a task is submitted, its message is still in the queue, and
\* polling answers queued.
C18_Witness ==
    \E t \in DOMAIN payload :
        /\ inq[t] = 1 /\ starts[t] = 0
        /\ Poll(t).status = "queued"

Failed(h) == hpc[h] = "done" /\ response[h][1].status # 200

\* C19: a request that ended on a network error or a timeout of the token
\* request, of an imagery fetch or of the summarization call is answered
\* 503, and a request that ended on a failed token request or imagery
\* fetch is answered with the status the HTTPException was first raised
\* with.
C19_NetworkErrorIs503 ==
    \A h \in Handlers :
        Failed(h) =>
            /\ response[h][1].cause = "RequestError" => response[h][1].status = 503
            /\ response[h][1].call \in {"token", "imagery"} =>
                  response[h][1].status = response[h][1].first

\* C19 witness: one request has ended on a network error of an imagery
\* fetch and another on an imagery fetch the upstream refused.
C19_Witness ==
    \E g, h \in Handlers :
        /\ Failed(g) /\ Failed(h)
        /\ response[g][1].call = "imagery" /\ response[h][1].call = "imagery"
        /\ response[g][1].cause = "RequestError" /\ response[g][1].status = 503
        /\ response[h][1].cause = "HTTPStatusError"
        /\ response[h][1].status \in UpstreamStatuses

\* The endpoint's counterpart of C13: a request asks for a token and for a
\* summary at most once and for an image at most twice, once when its
\* dates are equal, and makes no call once it has ended.
EndpointCallsOnce ==
    \A h \in Handlers :
        /\ calls[h].token <= 1 /\ calls[h].summarization <= 1
        /\ calls[h].imagery <= 2
        /\ (hpc[h] # "idle" /\ hreq[h].start_date = hreq[h].end_date) =>
              calls[h].imagery <= 1
        /\ (Failed(h) /\ response[h][1].call # "summarization") =>
              calls[h].summarization = 0

\* C21: the cache is written only by a request whose imagery fetches and
\* whose summarization call succeeded and gave a text that is not empty,
\* and a request that ends on an error leaves the cache as it was.
C21_CacheWrittenOnlyOnFullSuccess ==
    [][/\ store' \ store # {} =>
             \E h \in Handlers :
                 /\ hpc[h] = "summarize" /\ hpc'[h] = "done"
                 /\ response'[h][1].status = 200
                 /\ hloc[h].image_1 \in Images
                 /\ response'[h][1].body.ai_response # ""
       /\ \A h \in Handlers :
             (hpc[h] # "done" /\ hpc'[h] = "done" /\ response'[h][1].status # 200) =>
                 store' = store]_vars

\* The step with which request h leaves its cache lookup.
LeavesLookup(h) == hpc[h] = "cache_get" /\ hpc'[h] # "cache_get"

\* The step request h takes on a miss: it goes on to the token with
\* nothing called, nothing fetched and no response.
AsOnMiss(h) ==
    /\ hpc'[h] = "token"
    /\ hloc'[h] = NoLocals /\ calls'[h] = NoCalls /\ response'[h] = <<>>

\* C22: a failure of the cache never fails a request. A request whose
\* process has no cache client, or whose cache read raised, leaves the
\* lookup as it does on a miss; a request whose cache write raised is
\* answered 200 with the response it computed; and no request is answered
\* with an error of the cache.
C22_CacheFailureNeverFailsRequest ==
    [][\A h \in Handlers :
          /\ (LeavesLookup(h) /\ (~redis_client[hproc[h]] \/ lookup'[h].raised)) =>
                AsOnMiss(h)
          /\ (LeavesLookup(h) /\ lookup'[h].done /\ ~lookup'[h].hit) => AsOnMiss(h)
          /\ (hpc[h] = "summarize" /\ lookup'[h].set = "raised") =>
                /\ hpc'[h] = "done"
                /\ response'[h][1].status = 200
                /\ response'[h][1].body.image_url_1 = hloc[h].image_1
                /\ response'[h][1].body.image_url_2 = hloc[h].image_2
                /\ ~response'[h][1].body.cached
                /\ store' = store
          /\ (hpc'[h] = "done" /\ response'[h][1].status # 200) =>
                response'[h][1].call \in {"token", "imagery", "summarization"}]_vars

\* C22 witness: one request was handled without a cache client and another
\* met a raising read and then a raising write, and both were answered 200
\* after a summarization call.
C22_Witness ==
    \E g, h \in Handlers :
        /\ hpc[g] = "done" /\ ~redis_client[hproc[g]]
        /\ hpc[h] = "done" /\ redis_client[hproc[h]]
        /\ lookup[h].raised /\ ~lookup[h].done /\ lookup[h].set = "raised"
        /\ response[g][1].status = 200 /\ response[h][1].status = 200
        /\ calls[g].summarization = 1 /\ calls[h].summarization = 1

\* The step in which request h makes its summarization call.
CallsSummarization(h) == calls'[h].summarization > calls[h].summarization

\* C23: the summarization call is made only once the token and every image
\* the request needs have been obtained, a request whose token request or
\* imagery fetch failed has made no summarization call, and the contents of
\* every summarization call hold the first image.
C23_SummarizationCarriesFirstImage ==
    [][\A h \in Handlers :
          /\ CallsSummarization(h) =>
                /\ hloc[h].sh_token # -1
                /\ calls[h].imagery >= 1 /\ hloc[h].image_1 # None
                /\ hreq[h].start_date # hreq[h].end_date =>
                      calls[h].imagery = 2 /\ hloc[h].image_2 # None
                /\ \E i \in DOMAIN calls'[h].parts :
                      /\ "inlineData" \in DOMAIN calls'[h].parts[i]
                      /\ calls'[h].parts[i].inlineData = hloc[h].image_1
          /\ (hpc'[h] = "done" /\ response'[h][1].status # 200
              /\ response'[h][1].call \in {"token", "imagery"}) =>
                calls'[h].summarization = 0]_vars

\* C24: a completed entry was written by an execution whose two rasters
\* both had data, and its means and its change percentage are not NaN;
\* an execution that got both rasters, one of them entirely no-data, wrote
\* a failed entry with the no-data text.
C24_CompletedMeansAreDefined ==
    \A t \in DOMAIN tasks_db :
        /\ (/\ lastRun[t] # <<>>
            /\ lastRun[t][1].got_from /\ lastRun[t][1].got_to
            /\ lastRun[t][1].nodata_from \/ lastRun[t][1].nodata_to
            /\ tasks_db[t] # ProcessingEntry)
           => tasks_db[t] = [status |-> "failed", error |-> NoDataMsg]
        /\ tasks_db[t].status = "completed" =>
              /\ lastRun[t] # <<>>
              /\ ~lastRun[t][1].nodata_from /\ ~lastRun[t][1].nodata_to
              /\ ~tasks_db[t].result.mean_from.nan
              /\ ~tasks_db[t].result.mean_to.nan
              /\ ~tasks_db[t].result.change_percentage.nan

\* C24 witness: one task failed on a from raster that alone was entirely
\* no-data and another on a to raster that alone was.
C24_Witness ==
    \E t, u \in DOMAIN tasks_db :
        /\ lastRun[t] # <<>> /\ lastRun[u] # <<>>
        /\ lastRun[t][1].nodata_from /\ lastRun[t][1].got_to /\ ~lastRun[t][1].nodata_to
        /\ lastRun[u][1].nodata_to /\ lastRun[u][1].got_from /\ ~lastRun[u][1].nodata_from
        /\ tasks_db[t] = [status |-> "failed", error |-> NoDataMsg]
        /\ tasks_db[u] = [status |-> "failed", error |-> NoDataMsg]

\* The token and the expiry of a process are both unset, or the expiry is
\* the one computed for that token.
Paired(g) ==
    \/ g.value = -1 /\ g.expiry = -1
    \/ g.value # -1 /\ g.expiry = g.value + EXPIRES_IN - 60

\* C26: a token request that failed leaves the token and its expiry as
\* they were, and after every step the token and the expiry of each
\* process are both unset or belong together.
C26_TokenAndExpiryGoTogether ==
    [][/\ \A p \in Procs : Paired(token'[p])
       /\ \A h \in Handlers :
             (hpc[h] = "token_post" /\ hpc'[h] = "done") => token' = token]_vars

\* The cached token of a process may be returned: both are set and the
\* expiry is more than five minutes away.
CachedTokenIsGood(p) ==
    /\ token[p].value # -1 /\ token[p].expiry # -1
    /\ token[p].expiry > now + 5 * 60

\* The step in which request h passes its token to an imagery fetch: the
\* first fetch is called as soon as the token is returned, the second as
\* soon as the first has returned.
HandsTokenToFetch(h) ==
    hpc'[h] \in {"fetch_1", "fetch_2"} /\ hpc'[h] # hpc[h]

\* C25: get_sentinel_hub_token returns the cached token only when its
\* recorded expiry is more than five minutes away and requests a new one
\* otherwise, and whenever a token is passed to an imagery fetch its
\* recorded expiry has not passed.
C25_NoExpiredTokenToImagery ==
    [][\A h \in Handlers :
          /\ (hpc[h] = "token" /\ hpc'[h] = "fetch_1") =>
                /\ CachedTokenIsGood(hproc[h])
                /\ hloc'[h].sh_token = token[hproc[h]].value
          /\ (hpc[h] = "token" /\ hpc'[h] # "token" /\ ~CachedTokenIsGood(hproc[h])) =>
                hpc'[h] = "token_post" /\ calls'[h].token = 1
          /\ HandsTokenToFetch(h) => hloc'[h].sh_expiry > now']_vars

====
